---- MODULE Spec2Model ----
(***************************************************************************)
(* Model of py-polars/polars/functions.py: concat, read_csv, read_parquet, *)
(* scan_csv and scan_parquet, over a chunked columnar table engine         *)
(* (DataFrame / LazyFrame) whose operations are modelled from spec.md.     *)
(***************************************************************************)
EXTENDS Integers, Sequences, FiniteSets, TLC

(* ------------------------------ bounds -------------------------------- *)
MaxNewRows == 1
MaxHeight == 2
MaxDfs == 3

\* The identities of the table objects a run can allocate.
TableRefs == {1, 2}

VARIABLES heap, last, schemaErrIsRuntime, copyBorrowsMut, assertsEnabled,
          intMaxStrDigits, io, lf

\* What the source does not fix: the engine build (schemaErrIsRuntime,
\* copyBorrowsMut), the interpreter's __debug__ flag (assertsEnabled) and its
\* limit on the digits of an int <-> str conversion (intMaxStrDigits, 0: no
\* limit).
env == <<schemaErrIsRuntime, copyBorrowsMut, assertsEnabled, intMaxStrDigits>>

\* sys.get_int_max_str_digits() of an interpreter that has the limit and
\* was not configured otherwise.
DefaultIntMaxStrDigits == 4300

vars == <<heap, last, env, io, lf>>

(* ------------------------- generic helpers ---------------------------- *)
RECURSIVE Flat(_)
Flat(ss) == IF ss = <<>> THEN <<>> ELSE Head(ss) \o Flat(Tail(ss))

RECURSIVE SumLen(_)
SumLen(ss) == IF ss = <<>> THEN 0 ELSE Len(Head(ss)) + SumLen(Tail(ss))

SeqsUpTo(S, n) == UNION {[1..k -> S] : k \in 0..n}

(* ------------------- the table engine (spec.md 3, 4) ------------------ *)
Field(n, d) == [name |-> n, dtype |-> d]

SchemaIdVal == <<Field("id", "Int64"), Field("val", "Utf8")>>
SchemaDtype == <<Field("id", "Float64"), Field("val", "Utf8")>>
SchemaOrder == <<Field("val", "Utf8"), Field("id", "Int64")>>
SchemaNames == <<Field("key", "Int64"), Field("val", "Utf8")>>

Schemas == {SchemaIdVal, SchemaDtype, SchemaOrder, SchemaNames}

\* Table constructor: one ChunkedColumn per field, each holding one chunk
\* of n values; the value of row r of the table built as object `tag`
\* is <<tag, r>>.
NewTableValue(schema, tag, n) ==
  [cols   |-> [i \in 1..Len(schema) |->
                 [name   |-> schema[i].name,
                  dtype  |-> schema[i].dtype,
                  chunks |-> << [r \in 1..n |-> <<tag, r>>] >>]],
   height |-> n]

EmptyTable == [cols |-> <<>>, height |-> 0]

SchemaOf(t) == [i \in 1..Len(t.cols) |-> Field(t.cols[i].name, t.cols[i].dtype)]

\* ChunkedColumn.len(): the sum of the chunk lengths.
ColumnLen(c) == SumLen(c.chunks)

\* The logical values of column i, in row order.
ColumnValues(t, i) == Flat(t.cols[i].chunks)

\* Table.vstack on matching schemas and exclusively owned operands: the
\* chunks of `other` are appended to the chunks of `self`, column by column.
VstackHeightDropped(self, other) ==
  [cols   |-> [i \in 1..Len(self.cols) |->
                 [self.cols[i] EXCEPT !.chunks = @ \o other.cols[i].chunks]],
   height |-> self.height]

VstackTables(self, other) ==
  [cols   |-> [i \in 1..Len(self.cols) |->
                 [self.cols[i] EXCEPT !.chunks = @ \o other.cols[i].chunks]],
   height |-> self.height + other.height]

\* The error a vstack call raises, or "none".  selfRef and otherRef are the
\* identities of the two operand objects (0: an object nothing else refers
\* to).  The in-place vstack takes a mutable borrow of self and a shared
\* borrow of other, so the same object on both sides is a double borrow.
\* The copying vstack (in_place=False) never fails that way by spec.md 4.2,
\* while the comment at functions.py:520 expects it to ("one mutable one
\* ref"): mutBorrow says which of the two the engine build does.  The schema
\* check comes before any append.
VstackError(selfRef, otherRef, self, other, inPlace, mutBorrow) ==
  IF selfRef # 0 /\ selfRef = otherRef /\ (inPlace \/ mutBorrow)
  THEN "ConcurrentBorrow"
  ELSE IF SchemaOf(self) # SchemaOf(other) THEN "SchemaMismatch"
  ELSE "none"

\* ChunkedColumn.rechunk / Table.rechunk: one chunk per column, same values;
\* a column that already has at most one chunk is left as it is.
RechunkTable(t) ==
  [t EXCEPT !.cols = [i \in 1..Len(t.cols) |->
     IF Len(t.cols[i].chunks) <= 1 THEN t.cols[i]
     ELSE [t.cols[i] EXCEPT !.chunks = << Flat(@) >>]]]

\* DataFrame.clone(): a deep copy, equal in value, a distinct object.
CloneTable(t) == t

\* Which engine errors are instances of Python's RuntimeError.  The double
\* borrow is; whether the schema error is depends on the engine build.
IsRuntimeError(e, schemaIsRt) ==
  \/ e = "ConcurrentBorrow"
  \/ e = "SchemaMismatch" /\ schemaIsRt

(* --------------------- concat (functions.py 504-526) ------------------ *)
\* One entry of the log of engine calls made by a concat call.
LogEntry(op, step, inPlace, cloned, err) ==
  [op |-> op, step |-> step, in_place |-> inPlace, cloned |-> cloned, err |-> err]

\* line 515: assert len(dfs) > 0 passes.  The statement is compiled out
\* when the interpreter runs with -O (debug is __debug__).
AssertNonEmpty(dfs, debug) == debug => Len(dfs) > 0

\* The table `df` currently names: an object of the heap, or a table that
\* only the running call refers to.
DfTable(st) == IF st.dfRef # 0 THEN st.heap[st.dfRef] ELSE st.dfVal

\* lines 518-522: one iteration of the loop, for operand object `o`.
ConcatStep(st, o, step, schemaIsRt, mutBorrow) ==
  LET self  == DfTable(st)
      other == st.heap[o]
      e1    == VstackError(st.dfRef, o, self, other, FALSE, mutBorrow)
      try   == LogEntry("vstack", step, FALSE, FALSE, e1)
  IN
  IF e1 = "none"
  THEN \* line 519: df = df.vstack(dfs[i], in_place=False)
       [st EXCEPT !.dfRef = 0,
                  !.dfVal = VstackTables(self, other),
                  !.log   = Append(@, try)]
  ELSE IF IsRuntimeError(e1, schemaIsRt)
  THEN \* lines 521-522: df.vstack(dfs[i].clone(), in_place=True)
       LET copy  == CloneTable(other)
           e2    == VstackError(st.dfRef, 0, self, copy, TRUE, mutBorrow)
           retry == LogEntry("vstack", step, TRUE, TRUE, e2)
       IN
       IF e2 # "none"
       THEN [st EXCEPT !.err = e2, !.log = @ \o <<try, retry>>]
       ELSE IF st.dfRef # 0
       THEN [st EXCEPT !.heap[st.dfRef] = VstackTables(self, copy),
                       !.log = @ \o <<try, retry>>]
       ELSE [st EXCEPT !.dfVal = VstackTables(self, copy),
                       !.log = @ \o <<try, retry>>]
  ELSE [st EXCEPT !.err = e1, !.log = Append(@, try)]

\* line 517: for i in range(1, len(dfs)); an exception leaves the loop.
RECURSIVE ConcatLoop(_, _, _, _, _)
ConcatLoop(st, dfs, i, schemaIsRt, mutBorrow) ==
  IF i > Len(dfs) \/ st.err # "none" THEN st
  ELSE ConcatLoop(ConcatStep(st, dfs[i], i, schemaIsRt, mutBorrow),
                  dfs, i + 1, schemaIsRt, mutBorrow)

\* The whole call.  The outcome holds the heap after the call, the error
\* raised ("none" on return; "EmptyInput" is the AssertionError of line
\* 515), the returned table and the object it is (resRef = 0: a new
\* object), and the log of engine calls.
ConcatCall(h, dfs, rechunk, schemaIsRt, mutBorrow, debug) ==
  LET st0 == [heap |-> h, dfRef |-> 0, dfVal |-> EmptyTable,
              err |-> "none", log |-> <<>>]
  IN
  IF ~AssertNonEmpty(dfs, debug)
  THEN [st0 EXCEPT !.err = "EmptyInput"]            \* line 515
  ELSE IF Len(dfs) = 0
  THEN [st0 EXCEPT !.err = "IndexError"]            \* line 516: dfs[0]
  ELSE
    LET st == ConcatLoop([st0 EXCEPT !.dfRef = dfs[1]], dfs, 2, schemaIsRt, mutBorrow)
    IN
    IF st.err # "none" THEN st
    ELSE IF rechunk
    THEN \* line 525: return df.rechunk()
         [st EXCEPT !.dfVal = RechunkTable(DfTable(st)),
                    !.dfRef = 0,
                    !.log   = Append(@, LogEntry("rechunk", 0, FALSE, FALSE, "none"))]
    ELSE \* line 526: return df
         [st EXCEPT !.dfVal = DfTable(st)]

(* ------------------------ the table state machine --------------------- *)
Refs == 1..Len(heap)

NoCall == [op |-> "none", dfs |-> <<>>, rechunk |-> FALSE, in_place |-> FALSE,
           pre |-> <<>>, err |-> "none", result |-> EmptyTable, resRef |-> 0,
           log |-> <<>>]

HeightsBounded(h) == \A r \in 1..Len(h) : h[r].height <= MaxHeight

InitIdle ==
  /\ io = [op |-> "none"]
  /\ lf = [state |-> "none"]

Init ==
  /\ heap = <<>>
  /\ last = NoCall
  /\ schemaErrIsRuntime \in BOOLEAN
  /\ copyBorrowsMut \in BOOLEAN
  /\ assertsEnabled \in BOOLEAN
  /\ intMaxStrDigits = DefaultIntMaxStrDigits
  /\ InitIdle

Idle == last.op = "none"

\* Calls are made while every table is at most MaxHeight rows high.
Callable == Idle /\ HeightsBounded(heap)

\* Table constructor called by an ingestion function.
NewTable(schema, n) ==
  /\ Idle
  /\ Len(heap) < Cardinality(TableRefs)
  /\ heap' = Append(heap, NewTableValue(schema, Len(heap) + 1, n))
  /\ UNCHANGED <<last, env, io, lf>>

\* a.vstack(b, in_place)
Vstack(a, b, inPlace) ==
  LET e == VstackError(a, b, heap[a], heap[b], inPlace, copyBorrowsMut)
      t == VstackTables(heap[a], heap[b])
      c == [NoCall EXCEPT !.op = "vstack", !.dfs = <<a, b>>, !.in_place = inPlace,
                          !.pre = heap, !.err = e]
  IN
  /\ Callable
  /\ IF e # "none" THEN heap' = heap /\ last' = c
     ELSE IF inPlace
     THEN /\ heap' = [heap EXCEPT ![a] = t]
          /\ last' = [c EXCEPT !.result = t, !.resRef = a]
     ELSE /\ heap' = heap
          /\ last' = [c EXCEPT !.result = t]
  /\ UNCHANGED <<env, io, lf>>

\* a.rechunk()
Rechunk(a) ==
  /\ Callable
  /\ heap' = heap
  /\ last' = [NoCall EXCEPT !.op = "rechunk", !.dfs = <<a>>, !.pre = heap,
                            !.result = RechunkTable(heap[a])]
  /\ UNCHANGED <<env, io, lf>>

\* concat(dfs, rechunk)
Concat(dfs, rechunk) ==
  LET out == ConcatCall(heap, dfs, rechunk, schemaErrIsRuntime, copyBorrowsMut,
                        assertsEnabled)
  IN
  /\ Callable
  /\ heap' = out.heap
  /\ last' = [op |-> "concat", dfs |-> dfs, rechunk |-> rechunk,
              in_place |-> FALSE, pre |-> heap, err |-> out.err,
              result |-> out.dfVal, resRef |-> out.dfRef, log |-> out.log]
  /\ UNCHANGED <<env, io, lf>>

\* The caller is done with the outcome of the call: a returned table that
\* is a new object has no owner left and is destroyed.
Release ==
  /\ ~Idle
  /\ last' = NoCall
  /\ UNCHANGED <<heap, env, io, lf>>

Next ==
  \/ Idle /\ \E s \in Schemas, n \in 1..MaxNewRows : NewTable(s, n)
  \/ Callable /\ \E a \in Refs, b \in Refs, p \in BOOLEAN : Vstack(a, b, p)
  \/ Callable /\ \E a \in Refs : Rechunk(a)
  \/ Callable /\ \E dfs \in SeqsUpTo(Refs, MaxDfs), r \in BOOLEAN : Concat(dfs, r)
  \/ Release

Spec == Init /\ [][Next]_vars

(* --------------- read_csv (functions.py 97-259) ----------------------- *)
\* A Python str (a column name, a cell of a CSV file) is the sequence of the
\* code points of its characters: "f0" is <<102, 48>>, "column_1" is
\* <<99, 111, 108, 117, 109, 110, 95, 49>>.
StrF == <<102>>
StrH == <<104>>
StrN == <<110>>
StrV == <<118>>
StrX == <<120>>
StrPlus == <<43>>
StrMinus == <<45>>
StrUnderscore == <<95>>
StrZero == <<48>>
ColumnPrefix == <<99, 111, 108, 117, 109, 110, 95>>

\* The digit zero of every decimal digit run of Unicode: "0", then the
\* Arabic-Indic zero, ...; the ten digits of a run follow each other.
DigitZeros ==
  {48, 1632, 1776, 1984, 2406, 2534, 2662, 2790, 2918, 3046, 3174, 3302,
   3430, 3558, 3664, 3792, 3872, 4160, 4240, 6112, 6160, 6470, 6608, 6784,
   6800, 6992, 7088, 7232, 7248, 42528, 43216, 43264, 43472, 43504, 43600,
   44016, 65296, 66720, 68912, 69734, 69872, 69942, 70096, 70384, 70736,
   70864, 71248, 71360, 71472, 71904, 72016, 72784, 73040, 73120, 92768,
   92864, 93008, 120782, 120792, 120802, 120812, 120822, 123200, 123632,
   125264, 130032}

IsDigit(c) == \E z \in DigitZeros : c - z \in 0..9

DigitVal(c) == c - (CHOOSE z \in DigitZeros : c - z \in 0..9)

\* str(n), as an f-string formats an int: ASCII digits, "-" when negative.
RECURSIVE Decimal(_)
Decimal(n) ==
  IF n < 0 THEN StrMinus \o Decimal(0 - n)
  ELSE IF n < 10 THEN <<StrZero[1] + n>>
  ELSE Decimal(n \div 10) \o <<StrZero[1] + (n % 10)>>

\* s[k:]
Slice(s, k) == SubSeq(s, k + 1, Len(s))

\* s.startswith(p)
StartsWith(s, p) == Len(s) >= Len(p) /\ SubSeq(s, 1, Len(p)) = p

\* The characters int() drops around a literal: tab, line feed, vertical
\* tab, form feed, carriage return, space, and the whitespace of Unicode
\* past ASCII.
WhitespaceChars ==
  {9, 10, 11, 12, 13, 32, 133, 160, 5760} \cup (8192..8202)
    \cup {8232, 8233, 8239, 8287, 12288}

IsSpace(c) == c \in WhitespaceChars

RECURSIVE Strip(_)
Strip(s) ==
  IF s = <<>> THEN s
  ELSE IF IsSpace(Head(s)) THEN Strip(Tail(s))
  ELSE IF IsSpace(s[Len(s)]) THEN Strip(SubSeq(s, 1, Len(s) - 1))
  ELSE s

\* int(s): whitespace around the literal is dropped, one sign is allowed,
\* then decimal digits, with single underscores between digits.  The value
\* is kept as digits, so that a literal of any length has one.
HasSign(s) ==
  LET t == Strip(s) IN t # <<>> /\ (StartsWith(t, StrPlus) \/ StartsWith(t, StrMinus))

IntDigits(s) == LET t == Strip(s) IN IF HasSign(s) THEN Tail(t) ELSE t

\* The digits of the literal, underscores left out, as numbers 0..9.
LiteralDigits(s) ==
  LET d == SelectSeq(IntDigits(s), IsDigit)
  IN [k \in 1..Len(d) |-> DigitVal(d[k])]

\* int(s) does not raise ValueError.  maxDigits is the interpreter's limit
\* on the number of digits of the literal (leading zeros count, the sign,
\* underscores and whitespace do not); 0 is no limit.
IsIntLiteral(s, maxDigits) ==
  LET d == IntDigits(s)
  IN /\ d # <<>>
     /\ IsDigit(d[1]) /\ IsDigit(d[Len(d)])
     /\ \A k \in 1..Len(d) : IsDigit(d[k]) \/ <<d[k]>> = StrUnderscore
     /\ \A k \in 1..(Len(d) - 1) :
          ~(<<d[k]>> = StrUnderscore /\ <<d[k + 1]>> = StrUnderscore)
     /\ maxDigits = 0 \/ Len(LiteralDigits(s)) <= maxDigits

\* A Python int, of any size: its sign and the decimal digits of its
\* magnitude, most significant first, <<0>> for zero.
IntValue(neg, mag) == [neg |-> neg /\ mag # <<0>>, mag |-> mag]

\* The digits without leading zeros.
StripZeros(d) ==
  IF \A k \in 1..Len(d) : d[k] = 0 THEN <<0>>
  ELSE LET p == CHOOSE k \in 1..Len(d) : d[k] # 0 /\ \A j \in 1..(k - 1) : d[j] = 0
       IN SubSeq(d, p, Len(d))

\* magnitude + 1
MagInc(m) ==
  IF \A k \in 1..Len(m) : m[k] = 9 THEN <<1>> \o [k \in 1..Len(m) |-> 0]
  ELSE LET p == CHOOSE k \in 1..Len(m) : m[k] # 9 /\ \A j \in (k + 1)..Len(m) : m[j] = 9
       IN [k \in 1..Len(m) |-> IF k < p THEN m[k] ELSE IF k = p THEN m[k] + 1 ELSE 0]

\* magnitude - 1, for a magnitude of at least 1
MagDec(m) ==
  LET p == CHOOSE k \in 1..Len(m) : m[k] # 0 /\ \A j \in (k + 1)..Len(m) : m[j] = 0
  IN StripZeros([k \in 1..Len(m) |->
                   IF k < p THEN m[k] ELSE IF k = p THEN m[k] - 1 ELSE 9])

\* n + 1 and n - 1
IntAdd1(n) ==
  IF n.neg THEN IntValue(TRUE, MagDec(n.mag)) ELSE IntValue(FALSE, MagInc(n.mag))

IntSub1(n) ==
  IF n.neg \/ n.mag = <<0>> THEN IntValue(TRUE, MagInc(n.mag))
  ELSE IntValue(FALSE, MagDec(n.mag))

\* int(s), for a literal int() accepts.
IntOf(s) == IntValue(StartsWith(Strip(s), StrMinus), StripZeros(LiteralDigits(s)))

\* f"{n}" does not raise ValueError: the digits of n are within the limit.
CanFormat(n, maxDigits) == maxDigits = 0 \/ Len(n.mag) <= maxDigits

\* f"{n}" for an int of any size.
FormatInt(n) ==
  (IF n.neg THEN StrMinus ELSE <<>>) \o [k \in 1..Len(n.mag) |-> StrZero[1] + n.mag[k]]

\* The str prefix ++ str(n): Name(StrF, 0) is "f0".
Name(p, n) == p \o Decimal(n)

\* Optional arguments: None, or a value.
None == [none |-> TRUE, val |-> <<>>]
Some(v) == [none |-> FALSE, val |-> v]
NoneInt == [none |-> TRUE, val |-> 0]
\* Python truthiness of an optional list: None and [] are false.
Truthy(o) == ~o.none /\ o.val # <<>>

Failure(e) == [err |-> e, names |-> <<>>, cols |-> <<>>]
Frame(names, cols) == [err |-> "none", names |-> names, cols |-> cols]

IndexOf(seq, x) == CHOOSE i \in 1..Len(seq) : seq[i] = x /\ \A j \in 1..(i - 1) : seq[j] # x

\* The columns of a list of rows of width w.
ColumnsOf(rows, w) == [c \in 1..w |-> [r \in 1..Len(rows) |-> rows[r][c]]]

\* A null cell, written "null".
NullCell == <<110, 117, 108, 108>>

\* pa.csv.read_csv(file, ReadOptions(skip_rows, autogenerate_column_names),
\* ParseOptions, ConvertOptions(include_columns, include_missing_columns)),
\* as called at lines 202-213.
PaCsvReadCsv(file, skipRows, autogenerate, include, includeMissing) ==
  LET rows  == SubSeq(file, skipRows + 1, Len(file))
      w     == IF rows = <<>> THEN 0 ELSE Len(rows[1])
      names == IF autogenerate THEN [c \in 1..w |-> Name(StrF, c - 1)] ELSE rows[1]
      data  == IF autogenerate THEN rows ELSE Tail(rows)
      cols  == ColumnsOf(data, w)
      nulls == [r \in 1..Len(data) |-> NullCell]
      has(n) == \E c \in 1..w : names[c] = n
  IN
  IF rows = <<>> THEN Failure("ArrowInvalid")
  ELSE IF include.none \/ include.val = <<>> THEN Frame(names, cols)
  ELSE IF ~includeMissing /\ \E k \in 1..Len(include.val) : ~has(include.val[k])
  THEN Failure("KeyError")
  ELSE Frame(include.val,
             [k \in 1..Len(include.val) |->
                IF has(include.val[k]) THEN cols[IndexOf(names, include.val[k])]
                ELSE nulls])

\* tbl.rename_columns(names) / df.columns = names
RenameColumns(df, names) ==
  IF Len(names) # Len(df.names) THEN Failure("ValueError")
  ELSE [df EXCEPT !.names = names]

\* line 194: f"f{int(column[7:]) - 1}"
ColumnToF(n) == StrF \o FormatInt(IntSub1(IntOf(Slice(n, 7))))

\* line 200: f"f{column_idx}"
IndexToF(idx) == Name(StrF, idx)

\* line 220: f"column_{int(column[1:]) + 1}"
FToColumn(n) == ColumnPrefix \o FormatInt(IntAdd1(IntOf(Slice(n, 1))))

\* lines 180-187: the arguments allow pyarrow's parser.
UsePyarrowPath(a) ==
  /\ a.use_pyarrow
  /\ ~a.dtype_given
  /\ a.stop_after_n_rows.none
  /\ ~a.n_threads_given
  /\ a.encoding = "utf8"
  /\ ~a.low_memory

\* lines 188-200: the include_columns handed to pyarrow.
IncludeColumns(a) ==
  LET fromColumns ==
        IF Truthy(a.columns)
        THEN IF ~a.has_headers
             THEN Some([k \in 1..Len(a.columns.val) |-> ColumnToF(a.columns.val[k])])
             ELSE a.columns
        ELSE None
  IN
  IF ~Truthy(a.columns) /\ Truthy(a.projection)
  THEN Some([k \in 1..Len(a.projection.val) |-> IndexToF(a.projection.val[k])])
  ELSE fromColumns

\* line 194: f"f{int(column[7:]) - 1}" raises ValueError for one of the
\* columns, in int() or in the formatting of the result.
BadColumnNumbers(a, maxDigits) ==
  /\ Truthy(a.columns)
  /\ ~a.has_headers
  /\ \E k \in 1..Len(a.columns.val) :
       LET lit == Slice(a.columns.val[k], 7)
       IN \/ ~IsIntLiteral(lit, maxDigits)
          \/ ~CanFormat(IntSub1(IntOf(lit)), maxDigits)

\* line 220: f"column_{int(column[1:]) + 1}" raises ValueError for one of
\* the column names of the table.
BadTableNumbers(names, maxDigits) ==
  \E k \in 1..Len(names) :
    LET lit == Slice(names[k], 1)
    IN \/ ~IsIntLiteral(lit, maxDigits)
       \/ ~CanFormat(IntAdd1(IntOf(lit)), maxDigits)

\* lines 188-223: the pyarrow path.
ReadCsvPyarrow(a, maxDigits) ==
  IF BadColumnNumbers(a, maxDigits) THEN Failure("ValueError")
  ELSE
  LET tbl == PaCsvReadCsv(a.file, a.skip_rows, ~a.has_headers,
                          IncludeColumns(a), a.ignore_errors)
  IN
  IF tbl.err # "none" THEN tbl
  ELSE IF Truthy(a.new_columns) THEN RenameColumns(tbl, a.new_columns.val)
  ELSE IF ~a.has_headers
  THEN \* line 220: int(column[1:]) for every column name of the table
       IF BadTableNumbers(tbl.names, maxDigits)
       THEN Failure("ValueError")
       ELSE RenameColumns(tbl, [k \in 1..Len(tbl.names) |-> FToColumn(tbl.names[k])])
  ELSE tbl

\* DataFrame.read_csv, the engine's own parser, as documented at lines
\* 130-146: the first row after skip_rows is the header or the columns are
\* named column_1, column_2, ...; projection selects by zero-based index,
\* columns by name; at most stop_after_n_rows rows are read.
DataFrameReadCsv(a) ==
  LET rows  == SubSeq(a.file, a.skip_rows + 1, Len(a.file))
      w     == IF rows = <<>> THEN 0 ELSE Len(rows[1])
      names == IF a.has_headers THEN rows[1]
               ELSE [c \in 1..w |-> Name(ColumnPrefix, c)]
      all   == IF a.has_headers THEN Tail(rows) ELSE rows
      data  == IF a.stop_after_n_rows.none \/ a.stop_after_n_rows.val >= Len(all)
               THEN all ELSE SubSeq(all, 1, a.stop_after_n_rows.val)
      cols  == ColumnsOf(data, w)
      has(n) == \E c \in 1..w : names[c] = n
  IN
  IF rows = <<>> THEN Failure("ParseError")
  ELSE IF Truthy(a.projection)
  THEN IF \E k \in 1..Len(a.projection.val) : a.projection.val[k] + 1 > w
       THEN Failure("ParseError")
       ELSE Frame([k \in 1..Len(a.projection.val) |-> names[a.projection.val[k] + 1]],
                  [k \in 1..Len(a.projection.val) |-> cols[a.projection.val[k] + 1]])
  ELSE IF Truthy(a.columns)
  THEN IF \E k \in 1..Len(a.columns.val) : ~has(a.columns.val[k])
       THEN Failure("ParseError")
       ELSE Frame(a.columns.val,
                  [k \in 1..Len(a.columns.val) |-> cols[IndexOf(names, a.columns.val[k])]])
  ELSE Frame(names, cols)

\* lines 225-259: the engine path.
ReadCsvNative(a) ==
  LET df == DataFrameReadCsv(a)
  IN
  IF df.err # "none" THEN df
  ELSE IF Truthy(a.new_columns) THEN RenameColumns(df, a.new_columns.val)
  ELSE df

\* lines 172-178: autogenerated header names were requested, but a name in
\* columns does not start with "column_".
BadColumnNames(a) ==
  /\ Truthy(a.columns)
  /\ ~a.has_headers
  /\ \E k \in 1..Len(a.columns.val) : ~StartsWith(a.columns.val[k], ColumnPrefix)

\* read_csv(file, ...)
ReadCsvCall(a, maxDigits) ==
  IF BadColumnNames(a) THEN Failure("ValueError")
  ELSE IF UsePyarrowPath(a) THEN ReadCsvPyarrow(a, maxDigits)
  ELSE ReadCsvNative(a)

(* --------------- read_parquet (functions.py 363-400) ------------------ *)
\* pa.parquet.read_table(source, columns=columns), as called at line 397.
PaParquetReadTable(file, columns) ==
  LET names == file[1]
      cols  == ColumnsOf(Tail(file), Len(names))
      has(n) == \E c \in 1..Len(names) : names[c] = n
  IN
  IF columns.none THEN Frame(names, cols)
  ELSE IF \E k \in 1..Len(columns.val) : ~has(columns.val[k]) THEN Failure("KeyError")
  ELSE Frame(columns.val,
             [k \in 1..Len(columns.val) |-> cols[IndexOf(names, columns.val[k])]])

\* DataFrame.read_parquet(source, stop_after_n_rows): every column of the
\* file, the first stop_after_n_rows rows.
DataFrameReadParquet(file, stop) ==
  LET names == file[1]
      all   == Tail(file)
      data  == IF stop >= Len(all) THEN all ELSE SubSeq(all, 1, stop)
  IN Frame(names, ColumnsOf(data, Len(names)))

\* read_parquet(source, stop_after_n_rows, memory_map, columns)
ReadParquetCall(a) ==
  IF ~a.stop_after_n_rows.none
  THEN DataFrameReadParquet(a.file, a.stop_after_n_rows.val)      \* line 394
  ELSE PaParquetReadTable(a.file, a.columns)                      \* lines 396-400

(* ------------------------ the reader state machine -------------------- *)
MaxCsvRows == 2
MaxCsvCols == 3

\* The header rows of the files: ordinary names, and names that look like
\* the ones the parsers generate.
HeaderNames == {Name(StrH, c) : c \in 1..MaxCsvCols} \cup {Name(StrF, 0), Name(StrF, 1)}

\* f0 and f1 appear in a header only as its first two names, swapped.
FNamesSwapped(h) ==
  (\E c \in 1..Len(h) : StartsWith(h[c], StrF)) => (h[1] = Name(StrF, 1) /\ h[2] = Name(StrF, 0))

IsInjective(seq) == \A i, j \in 1..Len(seq) : seq[i] = seq[j] => i = j

Headers == {h \in [1..MaxCsvCols -> HeaderNames] :
              /\ IsInjective(h)
              /\ \A c \in 1..MaxCsvCols : StartsWith(h[c], StrH) => h[c] = Name(StrH, c)
              /\ StartsWith(h[MaxCsvCols], StrH)
              /\ FNamesSwapped(h)}

DataRow(r, w) == [c \in 1..w |-> Name(StrV, 10 * r + c)]

\* A file: a header row and 1..MaxCsvRows rows of data.
Files == {<<h>> \o [r \in 1..n |-> DataRow(r, MaxCsvCols)] :
            h \in Headers, n \in 1..MaxCsvRows}

IsIncreasing(seq) == \A i \in 1..(Len(seq) - 1) : seq[i] < seq[i + 1]

Projections ==
  {None} \cup {Some(p) : p \in {q \in SeqsUpTo(0..(MaxCsvCols - 1), 2) : IsIncreasing(q)}}

\* "111...1", one digit more than the default limit allows.
LongNumber == [k \in 1..(DefaultIntMaxStrDigits + 1) |-> StrZero[1] + 1]

ColumnLists ==
  {None, Some(<<>>), Some(<<Name(StrH, 1)>>), Some(<<Name(ColumnPrefix, 2)>>),
   Some(<<Name(ColumnPrefix, 2), Name(ColumnPrefix, 1)>>),
   Some(<<Name(ColumnPrefix \o StrX, 1)>>),
   Some(<<ColumnPrefix \o <<9, 49>> >>),
   Some(<<ColumnPrefix \o LongNumber>>),
   Some(<<Name(ColumnPrefix, 0)>>)}

DefaultOptions ==
  [use_pyarrow |-> TRUE, dtype_given |-> FALSE, stop_after_n_rows |-> NoneInt,
   n_threads_given |-> FALSE, encoding |-> "utf8", low_memory |-> FALSE]

\* The default options, and each single departure from them.
OptionProfiles ==
  {DefaultOptions,
   [DefaultOptions EXCEPT !.use_pyarrow = FALSE],
   [DefaultOptions EXCEPT !.dtype_given = TRUE],
   [DefaultOptions EXCEPT !.stop_after_n_rows = [none |-> FALSE, val |-> 1]],
   [DefaultOptions EXCEPT !.n_threads_given = TRUE],
   [DefaultOptions EXCEPT !.encoding = "utf8-lossy"],
   [DefaultOptions EXCEPT !.low_memory = TRUE]}

IoIdle == io.op = "none"

ReadCsv(file, hasHeaders, projection, columns, opts, ignoreErrors, skipRows, newColumns) ==
  LET a == [file |-> file, has_headers |-> hasHeaders, projection |-> projection,
            columns |-> columns, use_pyarrow |-> opts.use_pyarrow,
            dtype_given |-> opts.dtype_given,
            stop_after_n_rows |-> opts.stop_after_n_rows,
            n_threads_given |-> opts.n_threads_given, encoding |-> opts.encoding,
            low_memory |-> opts.low_memory, ignore_errors |-> ignoreErrors,
            skip_rows |-> skipRows, new_columns |-> newColumns]
  IN
  /\ IoIdle
  /\ io' = [op |-> "read_csv", args |-> a, out |-> ReadCsvCall(a, intMaxStrDigits)]
  /\ UNCHANGED <<heap, last, env, lf>>

ReadParquet(file, stop, columns) ==
  LET a == [file |-> file, stop_after_n_rows |-> stop, columns |-> columns]
  IN
  /\ IoIdle
  /\ io' = [op |-> "read_parquet", args |-> a, out |-> ReadParquetCall(a)]
  /\ UNCHANGED <<heap, last, env, lf>>

\* The caller is done with the returned DataFrame.
IoRelease ==
  /\ ~IoIdle
  /\ io' = [op |-> "none"]
  /\ UNCHANGED <<heap, last, env, lf>>

NextIO ==
  \/ IoIdle /\ \E f \in Files, hh \in BOOLEAN, p \in Projections, c \in ColumnLists,
        o \in OptionProfiles, ie \in BOOLEAN, sk \in 0..1,
        nc \in {None, Some(<<Name(StrN, 1)>>)} :
       ReadCsv(f, hh, p, c, o, ie, sk, nc)
  \/ IoIdle /\ \E f \in Files, st \in {NoneInt, [none |-> FALSE, val |-> 1]},
        c \in {None, Some(<<Name(StrH, 3)>>), Some(<<Name(StrH, 3), Name(StrF, 0)>>)} :
       ReadParquet(f, st, c)
  \/ IoRelease

InitIO ==
  /\ heap = <<>>
  /\ last = NoCall
  /\ schemaErrIsRuntime = FALSE
  /\ copyBorrowsMut = FALSE
  /\ assertsEnabled = TRUE
  /\ intMaxStrDigits \in {0, DefaultIntMaxStrDigits}
  /\ InitIdle

SpecIO == InitIO /\ [][NextIO]_vars

(* ----------------------- claims about the readers --------------------- *)
\* The names and data columns of the file of a read_csv call, read in full.
CsvRows(a) == SubSeq(a.file, a.skip_rows + 1, Len(a.file))
CsvWidth(a) == Len(a.file[1])
CsvNames(a) ==
  IF a.has_headers THEN CsvRows(a)[1] ELSE [c \in 1..CsvWidth(a) |-> Name(ColumnPrefix, c)]
CsvData(a) ==
  LET all == IF a.has_headers THEN Tail(CsvRows(a)) ELSE CsvRows(a)
  IN IF a.stop_after_n_rows.none \/ a.stop_after_n_rows.val >= Len(all)
     THEN all ELSE SubSeq(all, 1, a.stop_after_n_rows.val)

\* C8: read_csv with a projection and no columns argument returns exactly
\* the columns of the file at those indexes, with and without headers, on
\* the pyarrow path and on the engine path.
C8_ProjectionSelectsIndexes ==
  (io.op = "read_csv" /\ Truthy(io.args.projection) /\ io.args.columns.none
     /\ io.args.new_columns.none /\ CsvRows(io.args) # <<>>) =>
    LET a == io.args
        p == a.projection.val
    IN /\ io.out.err = "none"
       /\ io.out.names = [k \in 1..Len(p) |-> CsvNames(a)[p[k] + 1]]
       /\ io.out.cols = [k \in 1..Len(p) |-> ColumnsOf(CsvData(a), CsvWidth(a))[p[k] + 1]]

\* C9: read_parquet with a columns list returns a DataFrame holding only
\* the listed columns, whether stop_after_n_rows is None or set.
C9_ParquetColumnsOnly ==
  (io.op = "read_parquet" /\ Truthy(io.args.columns)
     /\ \A k \in 1..Len(io.args.columns.val) :
          \E c \in 1..Len(io.args.file[1]) : io.args.file[1][c] = io.args.columns.val[k]) =>
    /\ io.out.err = "none"
    /\ io.out.names = io.args.columns.val

(* -------- scan_csv, scan_parquet (functions.py 262-341) --------------- *)
\* A file argument: a str or a pathlib.Path.
FileArg(kind, path) == [kind |-> kind, path |-> path]

\* lines 302-303, 337-338: if isinstance(file, Path): file = str(file)
StrOfFile(file) == IF file.kind = "Path" THEN FileArg("str", file.path) ELSE file

AllColumns == [all |-> TRUE, cols |-> {}]
Columns(S) == [all |-> FALSE, cols |-> S]

\* LazyFrame.scan_csv / LazyFrame.scan_parquet: a Scan node holding the
\* source descriptor and the options, with nothing pushed down yet.
ScanNode(format, path, skipRows, stop, cache) ==
  [type |-> "Scan", format |-> format, path |-> path, skip_rows |-> skipRows,
   stop_after_n_rows |-> stop, cache |-> cache, preds |-> {}, proj |-> AllColumns]

\* A materialized table of the lazy engine: names and rows.
Rows(names, rows) == [err |-> "none", names |-> names, rows |-> rows]
RowsFailure(e) == [err |-> e, names |-> <<>>, rows |-> <<>>]

\* A new LazyFrame: its plan, not collected yet.
NewLazyFrame(plan) ==
  [state |-> "Unmaterialized", plan |-> plan, opt |-> plan, out |-> Rows(<<>>, <<>>)]

\* LazyFrame.scan_csv(file=..., skip_rows=..., stop_after_n_rows=..., cache=...)
LazyFrameScanCsv(file, skipRows, stop, cache) ==
  NewLazyFrame(ScanNode("csv", file.path, skipRows, stop, cache))

\* LazyFrame.scan_parquet(file=..., stop_after_n_rows=..., cache=...)
LazyFrameScanParquet(file, stop, cache) ==
  NewLazyFrame(ScanNode("parquet", file.path, 0, stop, cache))

\* scan_csv(file, ..., skip_rows, stop_after_n_rows, cache, ...): lines
\* 302-314, the file as a str and the arguments handed on as they are.
ScanCsv(a) ==
  LazyFrameScanCsv(StrOfFile(a.file), a.skip_rows, a.stop_after_n_rows, a.cache)

\* scan_parquet(file, stop_after_n_rows, cache): lines 337-341.
ScanParquet(a) ==
  LazyFrameScanParquet(StrOfFile(a.file), a.stop_after_n_rows, a.cache)

(* ------------------ the lazy plan (spec.md 3, 4.3) -------------------- *)
FilterNode(input, pred) == [type |-> "Filter", input |-> input, pred |-> pred]
SelectNode(input, cols) == [type |-> "Select", input |-> input, cols |-> cols]
ConcatNode(left, right) == [type |-> "Concat", left |-> left, right |-> right]

\* A predicate: the value of column col equals val.
Pred(col, val) == [col |-> col, val |-> val]

PlanColumns == <<"a", "b", "c">>

\* The files the decoders can read; any other path fails with ParseError.
DiskPaths == {"x.csv", "y.parquet"}

FileRows(path) ==
  IF path = "x.csv" THEN << <<1, 1, 7>>, <<2, 1, 8>>, <<1, 2, 9>> >>
  ELSE << <<2, 2, 5>>, <<1, 1, 6>> >>

ColIndex(names, c) == IndexOf(names, c)

Satisfies(names, row, preds) == \A p \in preds : row[ColIndex(names, p.col)] = p.val

FilterRows(t, preds) ==
  LET Keep(row) == Satisfies(t.names, row, preds)
  IN Rows(t.names, SelectSeq(t.rows, Keep))

ProjectRows(t, cols) ==
  Rows(cols, [r \in 1..Len(t.rows) |->
                [k \in 1..Len(cols) |-> t.rows[r][ColIndex(t.names, cols[k])]]])

\* The rows a decoder yields for a Scan node: skip_rows are skipped, then at
\* most stop_after_n_rows rows are kept.
DecodeRows(n) ==
  LET all  == FileRows(n.path)
      rest == SubSeq(all, n.skip_rows + 1, Len(all))
  IN IF n.stop_after_n_rows.none \/ n.stop_after_n_rows.val >= Len(rest) THEN rest
     ELSE SubSeq(rest, 1, n.stop_after_n_rows.val)

\* The columns of the file a Scan node keeps, in file order.
KeptColumns(n) ==
  LET Kept(c) == n.proj.all \/ c \in n.proj.cols
  IN SelectSeq(PlanColumns, Kept)

\* Materializing a Scan node: the decoder's rows, the pushed predicates
\* applied to them, the pushed projection applied last.
ScanLimitAfterFilter(n) ==
  IF n.path \notin DiskPaths THEN RowsFailure("ParseError")
  ELSE LET all  == FileRows(n.path)
           rest == Rows(PlanColumns, SubSeq(all, n.skip_rows + 1, Len(all)))
           kept == FilterRows(rest, n.preds).rows
           cut  == IF n.stop_after_n_rows.none \/ n.stop_after_n_rows.val >= Len(kept)
                   THEN kept ELSE SubSeq(kept, 1, n.stop_after_n_rows.val)
       IN ProjectRows(Rows(PlanColumns, cut), KeptColumns(n))

ScanTable(n) ==
  IF n.path \notin DiskPaths THEN RowsFailure("ParseError")
  ELSE ProjectRows(FilterRows(Rows(PlanColumns, DecodeRows(n)), n.preds), KeptColumns(n))

\* Materializing a plan, node by node, bottom-up.
RECURSIVE EvalPlan(_)
EvalPlan(n) ==
  IF n.type = "Scan" THEN ScanTable(n)
  ELSE IF n.type = "Filter"
  THEN LET t == EvalPlan(n.input)
       IN IF t.err # "none" THEN t ELSE FilterRows(t, {n.pred})
  ELSE IF n.type = "Select"
  THEN LET t == EvalPlan(n.input)
       IN IF t.err # "none" THEN t ELSE ProjectRows(t, n.cols)
  ELSE LET l == EvalPlan(n.left)
           r == EvalPlan(n.right)
       IN IF l.err # "none" THEN l
          ELSE IF r.err # "none" THEN r
          ELSE Rows(l.names, l.rows \o r.rows)

\* The unoptimized evaluation: full scans, each filter and select applied
\* afterwards.
CollectNaive(plan) == EvalPlan(plan)

SetOf(seq) == {seq[k] : k \in 1..Len(seq)}

\* Pushdown: the predicates of the Filter nodes above a Scan and the columns
\* needed above it are moved into the Scan node, which applies the predicates
\* to the decoded rows and hands on the needed columns only.  Filter nodes
\* disappear, Select nodes stay and ask their input for their own columns,
\* and a Concat node hands the same predicates and columns to both inputs.
RECURSIVE Pushdown(_, _, _)
Pushdown(n, preds, need) ==
  IF n.type = "Scan"
  THEN [n EXCEPT !.preds = preds, !.proj = need]
  ELSE IF n.type = "Filter"
  THEN Pushdown(n.input, preds \cup {n.pred}, need)
  ELSE IF n.type = "Select"
  THEN SelectNode(Pushdown(n.input, preds, Columns(SetOf(n.cols))), n.cols)
  ELSE ConcatNode(Pushdown(n.left, preds, need), Pushdown(n.right, preds, need))

\* The column names of the table a plan evaluates to.
RECURSIVE PlanNames(_)
PlanNames(n) ==
  IF n.type = "Scan" THEN PlanColumns
  ELSE IF n.type = "Filter" THEN PlanNames(n.input)
  ELSE IF n.type = "Select" THEN n.cols
  ELSE PlanNames(n.left)

Optimize(plan) == Pushdown(plan, {}, AllColumns)

RECURSIVE PlanSize(_)
PlanSize(n) ==
  IF n.type = "Scan" THEN 1
  ELSE IF n.type = "Concat" THEN 1 + PlanSize(n.left) + PlanSize(n.right)
  ELSE 1 + PlanSize(n.input)

(* ------------------------ the lazy state machine ---------------------- *)
MaxPlanSize == 5

StopChoices == {NoneInt, [none |-> FALSE, val |-> 1], [none |-> FALSE, val |-> 2]}

CsvScanArgs ==
  {[file |-> FileArg(k, "x.csv"), skip_rows |-> sk, stop_after_n_rows |-> st,
    cache |-> TRUE] : k \in {"str", "Path"}, sk \in 0..1, st \in StopChoices}

ParquetScanArgs ==
  {[file |-> FileArg(k, pth), stop_after_n_rows |-> st, cache |-> TRUE] :
     k \in {"str", "Path"}, pth \in {"y.parquet", "gone.parquet"},
     st \in {NoneInt, [none |-> FALSE, val |-> 1]}}

PlanPreds == {Pred("a", 1), Pred("b", 1), Pred("b", 2)}
PlanSelects == {<<"a">>, <<"b", "a">>, <<"c", "b">>}

ScanCsvCall(a) ==
  /\ lf.state = "none"
  /\ lf' = ScanCsv(a)
  /\ UNCHANGED <<heap, last, env, io>>

ScanParquetCall(a) ==
  /\ lf.state = "none"
  /\ lf' = ScanParquet(a)
  /\ UNCHANGED <<heap, last, env, io>>

Building(max) == lf.state = "Unmaterialized" /\ PlanSize(lf.plan) < max

\* lf.filter(pred): valid when the input has the predicate's column.
AddFilter(p, max) ==
  /\ Building(max)
  /\ p.col \in SetOf(PlanNames(lf.plan))
  /\ lf' = [lf EXCEPT !.plan = FilterNode(@, p)]
  /\ UNCHANGED <<heap, last, env, io>>

\* lf.select(cols): valid when the input has the columns.
AddSelect(cols, max) ==
  /\ Building(max)
  /\ SetOf(cols) \subseteq SetOf(PlanNames(lf.plan))
  /\ lf' = [lf EXCEPT !.plan = SelectNode(@, cols)]
  /\ UNCHANGED <<heap, last, env, io>>

\* Concat of the plan with a scan of the same schema.
AddConcat(other, max) ==
  /\ Building(max)
  /\ PlanSize(lf.plan) + 2 <= max
  /\ PlanNames(lf.plan) = PlanColumns
  /\ lf' = [lf EXCEPT !.plan = ConcatNode(@, other.plan)]
  /\ UNCHANGED <<heap, last, env, io>>

\* collect(): Unmaterialized -> Optimizing
CollectStart ==
  /\ lf.state = "Unmaterialized"
  /\ lf' = [lf EXCEPT !.state = "Optimizing"]
  /\ UNCHANGED <<heap, last, env, io>>

\* Optimizing -> Materializing, with the plan after pushdown
CollectOptimize ==
  /\ lf.state = "Optimizing"
  /\ lf' = [lf EXCEPT !.state = "Materializing", !.opt = Optimize(lf.plan)]
  /\ UNCHANGED <<heap, last, env, io>>

\* Materializing -> Materialized, or Failed(error) when a decoder fails
CollectMaterialize ==
  /\ lf.state = "Materializing"
  /\ LET t == EvalPlan(lf.opt)
     IN lf' = [lf EXCEPT !.state = IF t.err # "none" THEN "Failed" ELSE "Materialized",
                         !.out   = t]
  /\ UNCHANGED <<heap, last, env, io>>

Scanning ==
  \/ \E a \in CsvScanArgs : ScanCsvCall(a)
  \/ \E a \in ParquetScanArgs : ScanParquetCall(a)

PlanBuilding(max) ==
  \/ \E p \in PlanPreds : AddFilter(p, max)
  \/ \E c \in PlanSelects : AddSelect(c, max)
  \/ \E a \in {x \in ParquetScanArgs : x.file.kind = "str"} :
       AddConcat(ScanParquet(a), max)

Collecting ==
  \/ CollectStart
  \/ CollectOptimize
  \/ CollectMaterialize

NextLazy == Scanning \/ PlanBuilding(MaxPlanSize) \/ Collecting

InitLazy ==
  /\ heap = <<>>
  /\ last = NoCall
  /\ schemaErrIsRuntime = FALSE
  /\ copyBorrowsMut = FALSE
  /\ assertsEnabled = TRUE
  /\ intMaxStrDigits = DefaultIntMaxStrDigits
  /\ InitIdle

SpecLazy == InitLazy /\ [][NextLazy]_vars

(* ---------------------- claims about the lazy plan -------------------- *)
Terminal == {"Materialized", "Failed"}

\* C5: for every valid plan of Scan, Filter, Select and Concat nodes, collect
\* with predicate and projection pushdown returns the table (same columns,
\* same rows, same order) of the unoptimized evaluation, and fails when it
\* fails.
C5_PushdownEqualsNaive ==
  lf.state \in Terminal =>
    LET naive == CollectNaive(lf.plan)
    IN /\ lf.out.err = naive.err
       /\ lf.out.names = naive.names
       /\ lf.out.rows = naive.rows

\* A collected plan whose scan carries a row limit and a pushed predicate that
\* drops one of the rows the limit lets through.
C5_Witness ==
  /\ lf.state = "Materialized"
  /\ lf.plan.type = "Filter"
  /\ lf.plan.input.type = "Scan"
  /\ ~lf.plan.input.stop_after_n_rows.none
  /\ lf.opt.type = "Scan"
  /\ lf.opt.preds # {}
  /\ Len(lf.out.rows) = 1
  /\ Len(DecodeRows(lf.plan.input)) = 2

(* ----------------------- claims about the tables ---------------------- *)
\* The tables of a concat call have matching schemas.
InputsMatch(c) ==
  \A k \in 1..Len(c.dfs) : SchemaOf(c.pre[c.dfs[k]]) = SchemaOf(c.pre[c.dfs[1]])

\* The values of column i of the tables dfs[k..], as they were before the call.
RECURSIVE InputValues(_, _, _)
InputValues(c, i, k) ==
  IF k > Len(c.dfs) THEN <<>>
  ELSE ColumnValues(c.pre[c.dfs[k]], i) \o InputValues(c, i, k + 1)

RECURSIVE InputHeight(_, _)
InputHeight(c, k) ==
  IF k > Len(c.dfs) THEN 0 ELSE c.pre[c.dfs[k]].height + InputHeight(c, k + 1)

InputsUntouched(c) == \A k \in 1..Len(c.dfs) : heap[c.dfs[k]] = c.pre[c.dfs[k]]

\* C1: concat of a non-empty list of tables with matching schemas returns a
\* table whose height is the sum of the input heights and whose rows are the
\* rows of the inputs in list order, on the vstack path and on the
\* clone-and-retry path, for rechunk true and false.
C1_ConcatRowsInOrder ==
  (last.op = "concat" /\ Len(last.dfs) > 0 /\ InputsMatch(last)) =>
     /\ last.err = "none"
     /\ last.result.height = InputHeight(last, 1)
     /\ Len(last.result.cols) = Len(last.pre[last.dfs[1]].cols)
     /\ \A i \in 1..Len(last.result.cols) :
          ColumnValues(last.result, i) = InputValues(last, i, 1)

\* C2: concat of an empty list fails with EmptyInput before any vstack or
\* rechunk is performed.
C2_EmptyInput ==
  (last.op = "concat" /\ last.dfs = <<>>) =>
     /\ last.err = "EmptyInput"
     /\ last.log = <<>>
     /\ heap = last.pre

\* The entries of the log that belong to loop step s.
StepEntries(c, s) == {k \in 1..Len(c.log) : c.log[k].op = "vstack" /\ c.log[k].step = s}

\* C3: inside concat, a vstack step that fails with ConcurrentBorrow is
\* retried exactly once with a deep-cloned operand; a vstack step that fails
\* with any other error is not retried and that error reaches the caller.
C3_RetryOnlyOnBorrow ==
  last.op = "concat" =>
    \A k \in 1..Len(last.log) :
      LET e == last.log[k] IN
      (e.op = "vstack" /\ ~e.in_place /\ e.err # "none") =>
        IF e.err = "ConcurrentBorrow"
        THEN /\ StepEntries(last, e.step) = {k, k + 1}
             /\ last.log[k + 1].in_place
             /\ last.log[k + 1].cloned
        ELSE /\ StepEntries(last, e.step) = {k}
             /\ last.err = e.err

\* C4: vstack of two tables whose schemas differ fails with SchemaMismatch
\* and leaves both tables as they were, for in_place true and false; the
\* same holds for the tables passed to concat when one schema differs.
C4_SchemaMismatchNoMutation ==
  /\ (last.op = "vstack"
        /\ SchemaOf(last.pre[last.dfs[1]]) # SchemaOf(last.pre[last.dfs[2]])) =>
       (last.err = "SchemaMismatch" /\ InputsUntouched(last))
  /\ (last.op = "concat" /\ Len(last.dfs) > 0 /\ ~InputsMatch(last)) =>
       (last.err = "SchemaMismatch" /\ InputsUntouched(last))

\* A table is well formed: unique column names, and every column holds
\* as many values as the table is high.
WellFormed(t) ==
  /\ \A i, j \in 1..Len(t.cols) : t.cols[i].name = t.cols[j].name => i = j
  /\ \A i \in 1..Len(t.cols) : ColumnLen(t.cols[i]) = t.height

\* C7: in every state reached by construction, vstack, rechunk and concat,
\* every table has unique column names and columns as long as its height.
C7_TablesWellFormed ==
  /\ \A r \in Refs : WellFormed(heap[r])
  /\ (~Idle /\ last.err = "none") => WellFormed(last.result)

C7_Witness ==
  /\ last.op = "concat"
  /\ last.err = "none"
  /\ \E r \in Refs : Len(heap[r].cols[1].chunks) >= 3 /\ heap[r] # last.pre[r]

\* C10: after concat returns or fails, every table of the input list holds
\* the rows and columns it held before the call.
C10_ConcatLeavesInputs ==
  last.op = "concat" => InputsUntouched(last)

====
